---------------------------- MODULE Spec2Model ----------------------------
(***************************************************************************)
(* Model of the sizing core of the "Guia de Tabela de Medidas" application *)
(* (logic.py) and of the callers that drive it (app.py, test_logic.py).    *)
(*                                                                         *)
(* Units.  Body measurements are whole centimetres.  Heights are in        *)
(* half-centimetres, the step of the height input of app.py (altura 160.0  *)
(* is 320).  The weights of BIOTIPO_WEIGHTS are multiples of 0.2 and are   *)
(* kept in fifths (1.0 is 5, 0.8 is 4, 1.6 is 8), so a squared distance is *)
(* kept as 25 times its value in square centimetres.                       *)
(*                                                                         *)
(* Floating point.  logic.py computes dist = sqrt(db**2 + dw**2 + dh**2)   *)
(* in double precision.  On the centimetre grid two squared distances      *)
(* that differ as real numbers differ by at least 0.04, far more than the  *)
(* rounding error, so the doubles compare as the exact values do.  Two     *)
(* squared distances that are equal as real numbers give equal doubles     *)
(* when the two computations are the same up to the sign of the           *)
(* differences, or when every weight is 1.0 (every product is exact).     *)
(* Otherwise the products by 0.8, 1.2, 1.4 and 1.6 are rounded and the    *)
(* two doubles may come out equal or one unit in the last place apart,    *)
(* in either direction: e.g. score_sizes(83, 70, 87, "Ampulheta") puts     *)
(* size 36 before size 34.  A distance is therefore a                     *)
(* record [sq, ulp]: sq is the exact squared distance and ulp the         *)
(* rounding of the double, chosen nondeterministically where the          *)
(* arithmetic does not fix it.                                            *)
(*                                                                         *)
(* Labels are written without diacritics ("Violao", "media").              *)
(***************************************************************************)
EXTENDS Integers, Naturals, Sequences, FiniteSets, TLC

VARIABLES
    size_chart,      \* logic.SIZE_CHART      (module global)
    weights,         \* logic.BIOTIPO_WEIGHTS (module global)
    bins,            \* logic.STATURE_BINS    (module global)
    user_bust, user_waist, user_hip, biotipo, top_n,   \* arguments of the call
    scored,          \* list returned by score_sizes
    best,            \* first component returned by suggest_size_and_top
    best_small,      \* test_size_increases_with_measurements: best of person A
    best_big,        \* test_size_increases_with_measurements: best of person B
    top_candidates,  \* second component returned by suggest_size_and_top
    altura_cm,       \* argument of classify_estatura (half-centimetres)
    estatura,        \* value returned by classify_estatura
    branch,          \* the return statement classify_estatura left by
    pc,              \* "start", "scored", "done", "small", "big", "classified"
    n_calls,         \* calls completed earlier by the same caller
    calls,           \* the frames of the concurrent calls of score_sizes
    session_state    \* app.py: st.session_state (page, result_data, inputs)

vars == <<size_chart, weights, bins, user_bust, user_waist, user_hip, biotipo,
          top_n, scored, best, top_candidates, best_small, best_big,
          altura_cm, estatura, branch, pc, n_calls, calls, session_state>>

\* what the calls of logic.py made by one caller do not touch
elsewhere == <<n_calls, calls, session_state>>

globals == <<size_chart, weights, bins>>

-----------------------------------------------------------------------------
(* Bounds of the model *)

\* largest distance, in cm, of the waist and of the hip from the table
\* diagonal through the bust, for measurements off the diagonal
MaxDev == 4
\* measurements off the diagonal have their bust around the first BandRows
\* intervals of the table
BandRows == 3
\* how far, in cm, the bust ranges below the first and above the last entry
Margin == 2
\* top_n ranges over -MaxTopN .. MaxTopN
MaxTopN == 17
\* heights range over MinAltura .. MaxAltura half-centimetres (100 to 200 cm)
MinAltura == 200
MaxAltura == 400
\* a caller makes at most MaxCalls calls after its first one
MaxCalls == 2
\* score_sizes is called by NumThreads threads at once
NumThreads == 2

-----------------------------------------------------------------------------
(* Static tables of logic.py *)

Abs(x) == IF x < 0 THEN -x ELSE x
Min(a, b) == IF a <= b THEN a ELSE b
Max(a, b) == IF a >= b THEN a ELSE b

SIZES == [i \in 1..15 |-> 34 + 2 * (i - 1)]
BUST_SEQ == [i \in 1..Len(SIZES) |-> 80 + 4 * (i - 1)]
WAIST_SEQ == [i \in 1..Len(SIZES) |-> 68 + 4 * (i - 1)]
HIP_SEQ == [i \in 1..Len(SIZES) |-> 86 + 4 * (i - 1)]

SIZE_CHART ==
    [i \in 1..Len(SIZES) |->
        [size |-> SIZES[i], bust |-> BUST_SEQ[i],
         waist |-> WAIST_SEQ[i], hip |-> HIP_SEQ[i]]]

\* in insertion order, bounds in centimetres
STATURE_BINS ==
    << [nome |-> "baixa", lo |-> 150, hi |-> 157],
       [nome |-> "media", lo |-> 158, hi |-> 165],
       [nome |-> "alta",  lo |-> 166, hi |-> 181] >>

\* weights in fifths
BIOTIPO_WEIGHTS ==
    [b \in {"Retangular", "Violao", "Ampulheta", "Triangulo",
            "Triangulo invertido", "Oval"} |->
        CASE b = "Retangular"          -> [bust |-> 5, waist |-> 5, hip |-> 5]
          [] b = "Violao"              -> [bust |-> 4, waist |-> 5, hip |-> 6]
          [] b = "Ampulheta"           -> [bust |-> 6, waist |-> 7, hip |-> 6]
          [] b = "Triangulo"           -> [bust |-> 4, waist |-> 5, hip |-> 7]
          [] b = "Triangulo invertido" -> [bust |-> 7, waist |-> 5, hip |-> 4]
          [] b = "Oval"                -> [bust |-> 5, waist |-> 8, hip |-> 5]]

\* Python's None
None == [size |-> 0]

-----------------------------------------------------------------------------
(* classify_estatura *)

RECURSIVE FirstBinTruncated(_, _, _)
\* FirstBin comparing the whole centimetres of the height
FirstBinTruncated(b, altura, i) ==
    IF i > Len(b) THEN ""
    ELSE IF b[i].lo <= altura \div 2 /\ altura \div 2 <= b[i].hi THEN b[i].nome
    ELSE FirstBinTruncated(b, altura, i + 1)

RECURSIVE FirstBinExclusive(_, _, _)
\* FirstBin with the upper bound of a bin excluded (lo <= altura < hi)
FirstBinExclusive(b, altura, i) ==
    IF i > Len(b) THEN ""
    ELSE IF 2 * b[i].lo <= altura /\ altura < 2 * b[i].hi THEN b[i].nome
    ELSE FirstBinExclusive(b, altura, i + 1)

RECURSIVE FirstBin(_, _, _)
\* the loop of classify_estatura: the name of the first bin that holds the
\* height, "" when the loop ends without returning
FirstBin(b, altura, i) ==
    IF i > Len(b) THEN ""
    ELSE IF 2 * b[i].lo <= altura /\ altura <= 2 * b[i].hi THEN b[i].nome
    ELSE FirstBin(b, altura, i + 1)

RECURSIVE MinLow(_, _)
MinLow(b, i) ==
    IF i = Len(b) THEN b[i].lo ELSE Min(b[i].lo, MinLow(b, i + 1))

RECURSIVE MaxHigh(_, _)
MaxHigh(b, i) ==
    IF i = Len(b) THEN b[i].hi ELSE Max(b[i].hi, MaxHigh(b, i + 1))

\* which return statement of classify_estatura is taken
classify_branch(b, altura) ==
    IF FirstBin(b, altura, 1) # "" THEN "bin"
    ELSE IF altura < 2 * MinLow(b, 1) THEN "below"
    ELSE IF altura > 2 * MaxHigh(b, 1) THEN "above"
    ELSE "gap"

classify_estatura(b, altura) ==
    CASE classify_branch(b, altura) = "bin"   -> FirstBin(b, altura, 1)
      [] classify_branch(b, altura) = "below" -> "baixa"
      [] classify_branch(b, altura) = "above" -> "alta"
      [] OTHER                                -> "media"

-----------------------------------------------------------------------------
(* score_sizes *)

\* WeightsFor with the fallback on the last key instead of "Retangular"
WeightsForOval(wmap, label) ==
    IF label \in DOMAIN wmap THEN wmap[label] ELSE wmap["Oval"]

\* BIOTIPO_WEIGHTS.get(biotipo, BIOTIPO_WEIGHTS["Retangular"])
WeightsFor(wmap, label) ==
    IF label \in DOMAIN wmap THEN wmap[label] ELSE wmap["Retangular"]

\* SqDist with the hip compared with the reference waist
SqDistHipFromWaist(b, w, h, wt, row) ==
      ((b - row.bust) * wt.bust) * ((b - row.bust) * wt.bust)
    + ((w - row.waist) * wt.waist) * ((w - row.waist) * wt.waist)
    + ((h - row.waist) * wt.hip) * ((h - row.waist) * wt.hip)

\* SqDist without the hip term
SqDistNoHip(b, w, h, wt, row) ==
      ((b - row.bust) * wt.bust) * ((b - row.bust) * wt.bust)
    + ((w - row.waist) * wt.waist) * ((w - row.waist) * wt.waist)

\* SqDist with the weights on the wrong axes (hip, bust, waist)
SqDistWeightsShifted(b, w, h, wt, row) ==
      ((b - row.bust) * wt.hip) * ((b - row.bust) * wt.hip)
    + ((w - row.waist) * wt.bust) * ((w - row.waist) * wt.bust)
    + ((h - row.hip) * wt.waist) * ((h - row.hip) * wt.waist)

\* db ** 2 + dw ** 2 + dh ** 2 as a real number (times 25)
SqDist(b, w, h, wt, row) ==
      ((b - row.bust) * wt.bust) * ((b - row.bust) * wt.bust)
    + ((w - row.waist) * wt.waist) * ((w - row.waist) * wt.waist)
    + ((h - row.hip) * wt.hip) * ((h - row.hip) * wt.hip)

\* the doubles computed for two rows of equal exact distance are equal:
\* every weight is 1.0, or the differences agree up to their sign
SameDouble(b, w, h, wt, r1, r2) ==
    \/ wt.bust = 5 /\ wt.waist = 5 /\ wt.hip = 5
    \/ /\ Abs(b - r1.bust) = Abs(b - r2.bust)
       /\ Abs(w - r1.waist) = Abs(w - r2.waist)
       /\ Abs(h - r1.hip) = Abs(h - r2.hip)

\* pairs of rows of equal exact distance whose doubles rounding decides
RoundedPairs(chart, b, w, h, wt) ==
    LET rows == 1..Len(chart)
    IN IF Cardinality({SqDist(b, w, h, wt, chart[i]) : i \in rows})
              = Len(chart)
       THEN {}
       ELSE {p \in rows \X rows :
               /\ p[1] < p[2]
               /\ SqDist(b, w, h, wt, chart[p[1]])
                    = SqDist(b, w, h, wt, chart[p[2]])
               /\ ~SameDouble(b, w, h, wt, chart[p[1]], chart[p[2]])}

\* the roundings the arithmetic allows, each given as the set of rows
\* whose double is the larger one of its pair: in every pair the first
\* row (1), the second row (2) or neither (0)
Roundings(chart, b, w, h, wt) ==
    LET pairs == RoundedPairs(chart, b, w, h, wt)
    IN IF pairs = {} THEN {{}}
       ELSE {{p[f[p]] : p \in {q \in pairs : f[q] # 0}} :
                f \in [pairs -> 0..2]}

\* x["dist"] <= y["dist"]
DistLE(x, y) == x.sq < y.sq \/ (x.sq = y.sq /\ x.ulp <= y.ulp)
DistLT(x, y) == ~DistLE(y, x)

\* Insert for a descending sort (reverse=True)
InsertDescending(acc, c) ==
    LET k == Cardinality({i \in 1..Len(acc) : DistLE(c.dist, acc[i].dist)})
    IN SubSeq(acc, 1, k) \o <<c>> \o SubSeq(acc, k + 1, Len(acc))

\* Insert for an unstable sort: c goes before the elements equal to it
InsertBeforeEqual(acc, c) ==
    LET k == Cardinality({i \in 1..Len(acc) : DistLT(acc[i].dist, c.dist)})
    IN SubSeq(acc, 1, k) \o <<c>> \o SubSeq(acc, k + 1, Len(acc))

\* one step of the stable sort: c goes after every element not larger
Insert(acc, c) ==
    LET k == Cardinality({i \in 1..Len(acc) : DistLE(acc[i].dist, c.dist)})
    IN SubSeq(acc, 1, k) \o <<c>> \o SubSeq(acc, k + 1, Len(acc))

RECURSIVE SortByDist(_)
\* scored.sort(key=lambda x: x["dist"]): ascending and stable
SortByDist(s) ==
    IF s = <<>> THEN <<>>
    ELSE Insert(SortByDist(SubSeq(s, 1, Len(s) - 1)), s[Len(s)])

\* Candidate with the reference waist and hip exchanged
CandidateSwapped(b, w, h, wt, row, roundedUp) ==
    [size  |-> row.size,
     dist  |-> [sq |-> SqDist(b, w, h, wt, row),
                ulp |-> IF roundedUp THEN 1 ELSE 0],
     bust  |-> row.bust,
     waist |-> row.hip,
     hip   |-> row.waist]

\* the dictionary appended for one row of the chart
Candidate(b, w, h, wt, row, roundedUp) ==
    [size  |-> row.size,
     dist  |-> [sq |-> SqDist(b, w, h, wt, row),
                ulp |-> IF roundedUp THEN 1 ELSE 0],
     bust  |-> row.bust,
     waist |-> row.waist,
     hip   |-> row.hip]

\* the list built by the loop over SIZE_CHART, before the sort
Unsorted(chart, wmap, b, w, h, label, up) ==
    [i \in 1..Len(chart) |->
        Candidate(b, w, h, WeightsFor(wmap, label), chart[i], i \in up)]

score_sizes(chart, wmap, b, w, h, label, up) ==
    SortByDist(Unsorted(chart, wmap, b, w, h, label, up))

\* SlicePrefix that takes one element too many (s[:n + 1])
SlicePrefixOneMore(s, n) ==
    LET k == IF n + 1 >= 0 THEN Min(n + 1, Len(s)) ELSE Max(Len(s) + n + 1, 0)
    IN SubSeq(s, 1, k)

\* Python's s[:n]
SlicePrefix(s, n) ==
    LET k == IF n >= 0 THEN Min(n, Len(s)) ELSE Max(Len(s) + n, 0)
    IN SubSeq(s, 1, k)

\* the IndexError raised by [][0]
IndexError == [size |-> -1]

\* BestOf without its guard (scored[0])
BestOfUnguarded(s) == IF s # <<>> THEN s[1] ELSE IndexError

\* BestOf that takes the last element (scored[-1])
BestOfLast(s) == IF s # <<>> THEN s[Len(s)] ELSE None

\* BestOf that takes the second element (scored[1])
BestOfSecond(s) == IF Len(s) > 1 THEN s[2] ELSE None

\* scored[0] if scored else None
BestOf(s) == IF s # <<>> THEN s[1] ELSE None


-----------------------------------------------------------------------------
(* Inputs *)

\* the six keys of BIOTIPO_WEIGHTS and a label that is not a key
Labels == DOMAIN BIOTIPO_WEIGHTS \cup {"Desconhecido"}

BustRange == (BUST_SEQ[1] - Margin) .. (BUST_SEQ[Len(BUST_SEQ)] + Margin)
BandBustRange == (BUST_SEQ[1] - Margin) .. BUST_SEQ[1 + BandRows]

\* distance of the waist and of the hip from the diagonal through the bust
WaistDev(b, w) == (w - WAIST_SEQ[1]) - (b - BUST_SEQ[1])
HipDev(b, h) == (h - HIP_SEQ[1]) - (b - BUST_SEQ[1])

\* measurements on the diagonal of the table, over the whole table
Diagonal ==
    {<<b, b - BUST_SEQ[1] + WAIST_SEQ[1], b - BUST_SEQ[1] + HIP_SEQ[1]>> :
        b \in BustRange}

\* measurements within MaxDev of the diagonal, around the first entries
Band ==
    {<<b, b - BUST_SEQ[1] + WAIST_SEQ[1] + e2,
          b - BUST_SEQ[1] + HIP_SEQ[1] + e3>> :
        b \in BandBustRange, e2 \in (-MaxDev)..MaxDev, e3 \in (-MaxDev)..MaxDev}

\* the measurements of the two persons of test_logic.py
TestInputs == {<<90, 74, 98>>, <<110, 94, 118>>}

Measurements == Diagonal \cup Band \cup TestInputs

InMeasurements(b, w, h) ==
    \/ b \in BustRange /\ WaistDev(b, w) = 0 /\ HipDev(b, h) = 0
    \/ /\ b \in BandBustRange
       /\ Abs(WaistDev(b, w)) <= MaxDev
       /\ Abs(HipDev(b, h)) <= MaxDev
    \/ <<b, w, h>> \in TestInputs

\* by how much person B is larger than person A: one centimetre on one
\* axis, one table step on every axis, or the 20 cm of test_logic.py
Increments ==
    {<<1, 0, 0>>, <<0, 1, 0>>, <<0, 0, 1>>, <<4, 4, 4>>, <<20, 20, 20>>}

Alturas == MinAltura..MaxAltura

TopNs == (-MaxTopN)..MaxTopN

-----------------------------------------------------------------------------
(* The state after import of logic.py, before any call *)

\* no call has returned anything yet
Fresh ==
    /\ scored = <<>>
    /\ best = None
    /\ top_candidates = <<>>
    /\ best_small = None
    /\ best_big = None
    /\ estatura = ""
    /\ branch = ""
    /\ pc = "start"

\* no concurrent call is running and the app has not been opened
Quiet ==
    /\ n_calls = 0
    /\ calls = <<>>
    /\ session_state = [page |-> "", result_data |-> None, inputs |-> <<>>]

Loaded ==
    /\ size_chart = SIZE_CHART
    /\ weights = BIOTIPO_WEIGHTS
    /\ bins = STATURE_BINS
    /\ Fresh
    /\ Quiet

\* a caller about to score a measurement with the default top_n
Init ==
    /\ Loaded
    /\ \E m \in Measurements :
          user_bust = m[1] /\ user_waist = m[2] /\ user_hip = m[3]
    /\ biotipo \in Labels
    /\ top_n = 3
    /\ altura_cm = 320

\* a caller about to ask for any number of candidates
InitTopN ==
    /\ Loaded
    /\ \E m \in Diagonal :
          user_bust = m[1] /\ user_waist = m[2] /\ user_hip = m[3]
    /\ biotipo \in Labels
    /\ top_n \in TopNs
    /\ altura_cm = 320

\* a caller about to ask for candidates of a table configured without
\* entries (SIZES = [])
InitEmpty ==
    /\ size_chart = <<>>
    /\ weights = BIOTIPO_WEIGHTS
    /\ bins = STATURE_BINS
    /\ Fresh
    /\ Quiet
    /\ \E m \in Diagonal :
          user_bust = m[1] /\ user_waist = m[2] /\ user_hip = m[3]
    /\ biotipo \in Labels
    /\ top_n \in TopNs
    /\ altura_cm = 320

\* the arguments of a caller that makes several calls in a row
SessionMeasurements == TestInputs \cup {<<82, 70, 88>>, <<83, 70, 87>>}
SessionLabels == {"Retangular", "Ampulheta", "Desconhecido"}
SessionAlturas == {315, 320}

\* a caller about to make the first of several calls
InitSession ==
    /\ Loaded
    /\ \E m \in SessionMeasurements :
          user_bust = m[1] /\ user_waist = m[2] /\ user_hip = m[3]
    /\ biotipo \in SessionLabels
    /\ top_n = 3
    /\ altura_cm \in SessionAlturas

\* the threads that call score_sizes at once, and their arguments
Threads == 1..NumThreads

ConcurrentArgs ==
    {[b |-> 90, w |-> 74, h |-> 98, label |-> "Retangular"],
     [b |-> 110, w |-> 94, h |-> 118, label |-> "Oval"],
     [b |-> 82, w |-> 70, h |-> 88, label |-> "Ampulheta"]}

\* the frame of a call of score_sizes about to run its first line: the
\* arguments, the rounding of its arithmetic, the locals weights, scored
\* and the number of rows the loop has done
NewFrame(a, up) ==
    [b |-> a.b, w |-> a.w, h |-> a.h, label |-> a.label, up |-> up,
     wt |-> [bust |-> 0, waist |-> 0, hip |-> 0],
     scored |-> <<>>, i |-> 0, pc |-> "call"]

\* every thread about to call score_sizes
InitConcurrent ==
    /\ size_chart = SIZE_CHART
    /\ weights = BIOTIPO_WEIGHTS
    /\ bins = STATURE_BINS
    /\ Fresh
    /\ n_calls = 0
    /\ session_state = [page |-> "", result_data |-> None, inputs |-> <<>>]
    /\ user_bust = 90 /\ user_waist = 74 /\ user_hip = 100
    /\ biotipo = "Retangular"
    /\ top_n = 3
    /\ altura_cm = 320
    /\ calls \in [Threads ->
                    {NewFrame(a, up) :
                        a \in ConcurrentArgs,
                        up \in UNION {Roundings(SIZE_CHART, x.b, x.w, x.h,
                                          WeightsFor(BIOTIPO_WEIGHTS, x.label)) :
                                      x \in ConcurrentArgs}}]
    /\ \A t \in Threads :
          calls[t].up \in Roundings(SIZE_CHART, calls[t].b, calls[t].w,
                                    calls[t].h,
                                    WeightsFor(BIOTIPO_WEIGHTS, calls[t].label))

\* the pages of the sidebar
pages == <<"Inicio", "Medidas & Biotipo", "Resultado", "Sobre">>

\* what the visitor types into the form: the defaults (90, 74, 100) and the
\* persons of test_logic.py, heights of 150, 157.5, 160 and 170 cm
FormMeasurements == TestInputs \cup {<<90, 74, 100>>}

FormAlturas == {300, 315, 320, 340}

\* the app opened in a new session
InitApp ==
    /\ size_chart = SIZE_CHART
    /\ weights = BIOTIPO_WEIGHTS
    /\ bins = STATURE_BINS
    /\ Fresh
    /\ n_calls = 0
    /\ calls = <<>>
    /\ session_state = [page |-> "Inicio", result_data |-> None,
                        inputs |-> <<>>]
    /\ user_bust = 90 /\ user_waist = 74 /\ user_hip = 100
    /\ biotipo = "Retangular"
    /\ top_n = 3
    /\ altura_cm = 320

\* a caller about to classify a height
InitEstatura ==
    /\ Loaded
    /\ user_bust = 90 /\ user_waist = 74 /\ user_hip = 100
    /\ biotipo = "Retangular"
    /\ top_n = 3
    /\ altura_cm \in Alturas

-----------------------------------------------------------------------------
(* Calls *)

\* the values suggest_size_and_top(b, w, h, label, n) can return, each as
\* <<scored, best, top_candidates>>
suggest_size_and_top(chart, wmap, b, w, h, label, n) ==
    {<<s, BestOf(s), SlicePrefix(s, n)>> :
        s \in {score_sizes(chart, wmap, b, w, h, label, up) :
                 up \in Roundings(chart, b, w, h, WeightsFor(wmap, label))}}

\* ScoreSizes that sorts the rows of SIZE_CHART in place instead of a list
\* of its own
ScoreSizesSortsChart ==
    /\ pc = "start"
    /\ \E up \in Roundings(size_chart, user_bust, user_waist, user_hip,
                           WeightsFor(weights, biotipo)) :
          scored' = score_sizes(size_chart, weights, user_bust, user_waist,
                                user_hip, biotipo, up)
    /\ size_chart' = [i \in 1..Len(scored') |->
                        [size |-> scored'[i].size, bust |-> scored'[i].bust,
                         waist |-> scored'[i].waist, hip |-> scored'[i].hip]]
    /\ pc' = "scored"
    /\ UNCHANGED elsewhere
    /\ UNCHANGED <<weights, bins, user_bust, user_waist, user_hip, biotipo,
                   top_n, best, top_candidates, best_small, best_big,
                   altura_cm, estatura, branch>>

\* a call of score_sizes(user_bust, user_waist, user_hip, biotipo)
ScoreSizes ==
    /\ pc = "start"
    /\ \E up \in Roundings(size_chart, user_bust, user_waist, user_hip,
                           WeightsFor(weights, biotipo)) :
          scored' = score_sizes(size_chart, weights, user_bust, user_waist,
                                user_hip, biotipo, up)
    /\ pc' = "scored"
    /\ UNCHANGED elsewhere
    /\ UNCHANGED <<globals, user_bust, user_waist, user_hip, biotipo, top_n,
                   best, top_candidates, best_small, best_big,
                   altura_cm, estatura, branch>>

\* best, top = suggest_size_and_top(user_bust, user_waist, user_hip,
\*                                  biotipo, top_n)
SuggestSizeAndTop ==
    /\ pc = "start"
    /\ \E r \in suggest_size_and_top(size_chart, weights, user_bust,
                                     user_waist, user_hip, biotipo, top_n) :
          /\ scored' = r[1]
          /\ best' = r[2]
          /\ top_candidates' = r[3]
    /\ pc' = "done"
    /\ UNCHANGED elsewhere
    /\ UNCHANGED <<globals, user_bust, user_waist, user_hip, biotipo, top_n,
                   best_small, best_big, altura_cm, estatura, branch>>

\* best_small, _ = suggest_size_and_top(...) for person A
TestSmall ==
    /\ pc = "start"
    /\ \E r \in suggest_size_and_top(size_chart, weights, user_bust,
                                     user_waist, user_hip, biotipo, top_n) :
          best_small' = r[2]
    /\ pc' = "small"
    /\ UNCHANGED elsewhere
    /\ UNCHANGED <<globals, user_bust, user_waist, user_hip, biotipo, top_n,
                   scored, best, top_candidates, best_big,
                   altura_cm, estatura, branch>>

\* best_big, _ = suggest_size_and_top(...) for person B, of the same
\* category and larger than person A by an increment
TestBig ==
    /\ pc = "small"
    /\ \E d \in Increments :
          /\ InMeasurements(user_bust + d[1], user_waist + d[2],
                            user_hip + d[3])
          /\ user_bust' = user_bust + d[1]
          /\ user_waist' = user_waist + d[2]
          /\ user_hip' = user_hip + d[3]
    /\ \E r \in suggest_size_and_top(size_chart, weights, user_bust',
                                     user_waist', user_hip', biotipo, top_n) :
          best_big' = r[2]
    /\ pc' = "big"
    /\ UNCHANGED elsewhere
    /\ UNCHANGED <<globals, biotipo, top_n, scored, best, top_candidates,
                   best_small, altura_cm, estatura, branch>>

\* estatura = classify_estatura(altura_cm)
ClassifyEstatura ==
    /\ pc = "start"
    /\ estatura' = classify_estatura(bins, altura_cm)
    /\ branch' = classify_branch(bins, altura_cm)
    /\ pc' = "classified"
    /\ UNCHANGED elsewhere
    /\ UNCHANGED <<globals, user_bust, user_waist, user_hip, biotipo, top_n,
                   scored, best, top_candidates, best_small, best_big,
                   altura_cm>>

\* the caller drops what the last call returned and makes up the arguments
\* of its next call
NewCall ==
    /\ pc \in {"scored", "done", "classified"}
    /\ n_calls < MaxCalls
    /\ n_calls' = n_calls + 1
    /\ \E m \in SessionMeasurements :
          user_bust' = m[1] /\ user_waist' = m[2] /\ user_hip' = m[3]
    /\ biotipo' \in SessionLabels
    /\ altura_cm' \in SessionAlturas
    /\ scored' = <<>>
    /\ best' = None
    /\ top_candidates' = <<>>
    /\ estatura' = ""
    /\ branch' = ""
    /\ pc' = "start"
    /\ UNCHANGED <<globals, top_n, best_small, best_big, calls, session_state>>

\* the list thread t appends to: a thread shares the list of thread 1
SharedList(cs, t) == cs[1].scored

\* the list thread t appends to: the local scored of its own call
OwnList(cs, t) == cs[t].scored

\* what a thread leaves alone
OneCaller ==
    <<globals, user_bust, user_waist, user_hip, biotipo, top_n, scored, best,
      top_candidates, best_small, best_big, altura_cm, estatura, branch, pc,
      n_calls, session_state>>

\* thread t: weights = BIOTIPO_WEIGHTS.get(...); scored = []
Enter(t) ==
    /\ calls[t].pc = "call"
    /\ calls' = [calls EXCEPT
                   ![t].wt = WeightsFor(weights, calls[t].label),
                   ![t].scored = <<>>,
                   ![t].pc = "loop"]
    /\ UNCHANGED OneCaller

\* thread t: one turn of the loop over SIZE_CHART
RowStep(t) ==
    /\ calls[t].pc = "loop"
    /\ calls[t].i < Len(size_chart)
    /\ calls' = [calls EXCEPT
                   ![t].scored =
                       Append(OwnList(calls, t),
                              Candidate(calls[t].b, calls[t].w, calls[t].h,
                                        calls[t].wt,
                                        size_chart[calls[t].i + 1],
                                        (calls[t].i + 1) \in calls[t].up)),
                   ![t].i = calls[t].i + 1]
    /\ UNCHANGED OneCaller

\* thread t: the loop is over; scored.sort(...); return scored
SortStep(t) ==
    /\ calls[t].pc = "loop"
    /\ calls[t].i = Len(size_chart)
    /\ calls' = [calls EXCEPT
                   ![t].scored = SortByDist(OwnList(calls, t)),
                   ![t].pc = "returned"]
    /\ UNCHANGED OneCaller

\* what a script run of the app leaves alone
OutsideApp ==
    <<globals, user_bust, user_waist, user_hip, biotipo, top_n, scored, best,
      top_candidates, best_small, best_big, altura_cm, estatura, branch, pc,
      n_calls, calls>>

\* the button "Começar" of the first page
Comecar ==
    /\ session_state.page = "Inicio"
    /\ session_state' = [session_state EXCEPT !.page = "Medidas & Biotipo"]
    /\ UNCHANGED OutsideApp

\* the visitor picks another page in the sidebar
Sidebar(choice) ==
    /\ choice # session_state.page
    /\ session_state' =
          [session_state EXCEPT
              !.result_data = IF choice # "Resultado" THEN None ELSE @,
              !.page = choice]
    /\ UNCHANGED OutsideApp

\* the button "Calcular tamanho sugerido" of the form (date_time and tip,
\* two texts of the page, are left out of the result)
Calcular ==
    /\ session_state.page = "Medidas & Biotipo"
    /\ \E m \in FormMeasurements, label \in DOMAIN weights,
          altura \in FormAlturas :
          \E r \in suggest_size_and_top(size_chart, weights, m[1], m[2], m[3],
                                        label, 3) :
              session_state' =
                  [page |-> "Resultado",
                   result_data |->
                       [biotipo |-> label,
                        estatura |-> classify_estatura(bins, altura),
                        suggested_size |-> r[2].size,
                        top3 |-> r[3]],
                   inputs |-> [altura |-> altura, busto |-> m[1],
                               cintura |-> m[2], quadril |-> m[3]]]
    /\ UNCHANGED OutsideApp

\* the button "Nova consulta" under a result
NovaConsulta ==
    /\ session_state.page = "Resultado"
    /\ session_state.result_data # None
    /\ session_state' = [session_state EXCEPT !.page = "Medidas & Biotipo"]
    /\ UNCHANGED OutsideApp

Next == ScoreSizes \/ SuggestSizeAndTop \/ TestSmall \/ TestBig

Spec == Init /\ [][Next]_vars

NextTopN == ScoreSizes \/ SuggestSizeAndTop

SpecTopN == InitTopN /\ [][NextTopN]_vars

NextEstatura == ClassifyEstatura

SpecEstatura == InitEstatura /\ [][NextEstatura]_vars

SpecEmpty == InitEmpty /\ [][NextTopN]_vars

NextSession == ScoreSizes \/ SuggestSizeAndTop \/ ClassifyEstatura \/ NewCall

SpecSession == InitSession /\ [][NextSession]_vars

NextConcurrent == \E t \in Threads : Enter(t) \/ RowStep(t) \/ SortStep(t)

SpecConcurrent == InitConcurrent /\ [][NextConcurrent]_vars

NextApp ==
    \/ Comecar
    \/ \E choice \in {pages[i] : i \in DOMAIN pages} : Sidebar(choice)
    \/ Calcular
    \/ NovaConsulta

SpecApp == InitApp /\ [][NextApp]_vars

-----------------------------------------------------------------------------
(* Properties *)

\* the distance x is not larger than the distance y
NotAfter(x, y) == x.sq < y.sq \/ (x.sq = y.sq /\ x.ulp <= y.ulp)

\* score_sizes has returned (alone or within suggest_size_and_top)
Returned == pc \in {"scored", "done"}

\* the weights the call selects
Selected ==
    IF biotipo \in DOMAIN weights THEN weights[biotipo]
    ELSE weights["Retangular"]

\* the squared distance (times 25) of the user from a reference under the
\* weights wt
WeightedSq(c, wt) ==
      ((user_bust - c.bust) * wt.bust) * ((user_bust - c.bust) * wt.bust)
    + ((user_waist - c.waist) * wt.waist) * ((user_waist - c.waist) * wt.waist)
    + ((user_hip - c.hip) * wt.hip) * ((user_hip - c.hip) * wt.hip)

\* the same under the weights the call selects
Formula(c) == WeightedSq(c, Selected)

\* C1: the sequence returned by score_sizes is ordered by non-decreasing
\* distance, for every measurement and every label, known or not.
C1_ScoresAreSorted ==
    Returned =>
        \A i \in 1..(Len(scored) - 1) :
            NotAfter(scored[i].dist, scored[i + 1].dist)

\* an unknown label was scored and the sort moved size 40 to the front
C1_Witness ==
    /\ pc = "scored"
    /\ biotipo \notin DOMAIN weights
    /\ Len(scored) = 15
    /\ scored[1].size = 40
    /\ scored[15].size = 62

\* C2: for a fixed category, a person B whose bust, waist and hip are not
\* smaller than those of a person A (by one centimetre on one axis, by one
\* table step of 4 cm on every axis, or by the 20 cm of the test) is never
\* suggested a smaller size than A.
C2_SizeIncreasesWithMeasurements ==
    pc = "big" => best_big.size >= best_small.size

\* the two persons of test_size_increases_with_measurements: 38 and 48
C2_Witness ==
    /\ pc = "big"
    /\ biotipo = "Retangular"
    /\ <<user_bust, user_waist, user_hip>> = <<110, 94, 118>>
    /\ best_small.size = 38
    /\ best_big.size = 48

\* the user's measurements are exactly those of entry i of the table
ExactEntry(i) ==
    /\ user_bust = size_chart[i].bust
    /\ user_waist = size_chart[i].waist
    /\ user_hip = size_chart[i].hip

\* C3: when the measurements equal the reference triple of a table entry,
\* for every category, the candidate of that entry has distance 0, is the
\* first element of score_sizes and is the best match of
\* suggest_size_and_top.
C3_ExactMatchZeroDistance ==
    Returned =>
        \A i \in 1..Len(size_chart) :
            ExactEntry(i) =>
                /\ scored[1].size = size_chart[i].size
                /\ scored[1].dist = [sq |-> 0, ulp |-> 0]
                /\ \A j \in 2..Len(scored) : scored[j].dist.sq > 0
                /\ pc = "done" => best = scored[1]

\* the last entry (size 62) matched exactly under the weights of Oval
C3_Witness ==
    /\ pc = "done"
    /\ biotipo = "Oval"
    /\ ExactEntry(15)
    /\ best.size = 62
    /\ best.dist.sq = 0

\* C4: a label that is not a key of BIOTIPO_WEIGHTS is scored exactly as
\* "Retangular": same sizes, same order, same distances.
C4_FallbackDeterminism ==
    (Returned /\ biotipo \notin DOMAIN weights) =>
        /\ Roundings(size_chart, user_bust, user_waist, user_hip,
                     weights["Retangular"]) = {{}}
        /\ scored = score_sizes(size_chart, weights, user_bust, user_waist,
                                user_hip, "Retangular", {})

\* score_sizes(90, 74, 98, "Desconhecido") has returned, size 38 first
C4_Witness ==
    /\ pc = "scored"
    /\ biotipo = "Desconhecido"
    /\ <<user_bust, user_waist, user_hip>> = <<90, 74, 98>>
    /\ scored[1].size = 38
    /\ scored[1].dist.sq = 25 * (4 + 4 + 16)

\* C5: heights in [150,157] are baixa, in [158,165] media, in [166,181]
\* alta, below 150 baixa and above 181 alta (heights in half-centimetres).
C5_HeightBoundaries ==
    pc = "classified" =>
        /\ (altura_cm >= 300 /\ altura_cm <= 314) => estatura = "baixa"
        /\ (altura_cm >= 316 /\ altura_cm <= 330) => estatura = "media"
        /\ (altura_cm >= 332 /\ altura_cm <= 362) => estatura = "alta"
        /\ altura_cm < 300 => estatura = "baixa"
        /\ altura_cm > 362 => estatura = "alta"

\* classify_estatura(157) has returned baixa
C5_Witness ==
    /\ pc = "classified"
    /\ altura_cm = 314
    /\ estatura = "baixa"

\* every size of the table appears exactly once in the returned sequence
OnePerEntry ==
    /\ Len(scored) = Len(size_chart)
    /\ Len(scored) = 15
    /\ \A k \in 0..14 :
          Cardinality({i \in 1..Len(scored) : scored[i].size = 34 + 2 * k}) = 1

\* the top list is the prefix of the given length of the sorted sequence
TopIsPrefix(n) ==
    /\ Len(top_candidates) = n
    /\ \A i \in 1..Len(top_candidates) : top_candidates[i] = scored[i]

\* C6 as stated: one candidate per entry, and for every integer top_n the
\* top list is the prefix of length min(top_n, tableSize).
C6_CardinalityAnyTopN ==
    /\ Returned => OnePerEntry
    /\ pc = "done" => TopIsPrefix(Min(top_n, Len(size_chart)))

\* C6 amended: one candidate per entry; for every top_n >= 0 the top list
\* is the prefix of length min(top_n, tableSize); for every top_n < 0 it is
\* the prefix of length max(tableSize + top_n, 0).
C6_Cardinality ==
    /\ Returned => OnePerEntry
    /\ (pc = "done" /\ top_n >= 0) =>
            TopIsPrefix(Min(top_n, Len(size_chart)))
    /\ (pc = "done" /\ top_n < 0) =>
            TopIsPrefix(Max(Len(size_chart) + top_n, 0))

\* more candidates asked for than the table holds: all 15 are returned
C6_Witness ==
    /\ pc = "done"
    /\ top_n = 16
    /\ Len(top_candidates) = 15
    /\ top_candidates = scored

\* C7: the best candidate is the first element of the sorted sequence, no
\* table entry is strictly nearer, and for top_n >= 1 it is the first
\* element of the top list.
C7_BestIsNearest ==
    pc = "done" =>
        /\ best = scored[1]
        /\ \A i \in 1..Len(size_chart) : Formula(size_chart[i]) >= best.dist.sq
        /\ \A i \in 1..Len(scored) : NotAfter(best.dist, scored[i].dist)
        /\ top_n >= 1 => (top_candidates # <<>> /\ top_candidates[1] = best)

\* top_n = 1: the top list is the best candidate alone
C7_Witness ==
    /\ pc = "done"
    /\ top_n = 1
    /\ best.size = 48
    /\ top_candidates = <<best>>

\* the pairs <<A, B>> of categories with A's weight >= B's on every axis
Heavier ==
    {<<"Oval", "Retangular">>, <<"Triangulo", "Violao">>,
     <<"Ampulheta", "Retangular">>, <<"Ampulheta", "Violao">>}

\* C8: when category A weighs every axis at least as much as category B,
\* the distance of every table entry under A is at least its distance
\* under B, for every measurement.
C8_WeightSensitivity ==
    pc = "scored" =>
        \A p \in Heavier : \A i \in 1..Len(scored) :
            /\ \A k \in {"bust", "waist", "hip"} :
                  weights[p[1]][k] >= weights[p[2]][k]
            /\ biotipo = p[1] =>
                  scored[i].dist.sq >= WeightedSq(scored[i], weights[p[2]])
            /\ biotipo = p[2] =>
                  scored[i].dist.sq <= WeightedSq(scored[i], weights[p[1]])

\* scored under Oval, the waist off the reference: strictly farther than
\* under Retangular
C8_Witness ==
    /\ pc = "scored"
    /\ biotipo = "Oval"
    /\ \E i \in 1..Len(scored) :
          /\ user_waist # scored[i].waist
          /\ scored[i].dist.sq > WeightedSq(scored[i], weights["Retangular"])

\* C9: every candidate carries the reference triple of the entry of its
\* size, (80+4i, 68+4i, 86+4i) for size 34+2i, and its squared distance is
\* the sum of the squared weighted differences under the selected weights.
C9_CandidateIsEntryAndDistance ==
    Returned =>
        \A j \in 1..Len(scored) :
            \E i \in 0..14 :
                /\ scored[j].size = 34 + 2 * i
                /\ scored[j].bust = 80 + 4 * i
                /\ scored[j].waist = 68 + 4 * i
                /\ scored[j].hip = 86 + 4 * i
                /\ scored[j].dist.sq = Formula(scored[j])

\* (90, 74, 98) under Triangulo invertido: size 38 is (88, 76, 94), at
\* squared distance (2*1.4)^2 + (2*1.0)^2 + (4*0.8)^2
C9_Witness ==
    /\ pc = "scored"
    /\ biotipo = "Triangulo invertido"
    /\ <<user_bust, user_waist, user_hip>> = <<90, 74, 98>>
    /\ \E j \in 1..Len(scored) :
          /\ scored[j].size = 38
          /\ <<scored[j].bust, scored[j].waist, scored[j].hip>> = <<88, 76, 94>>
          /\ scored[j].dist.sq = 196 + 100 + 256

\* the user is exactly midway between the entries i and i + 1
Midway(i) ==
    /\ 2 * user_bust = size_chart[i].bust + size_chart[i + 1].bust
    /\ 2 * user_waist = size_chart[i].waist + size_chart[i + 1].waist
    /\ 2 * user_hip = size_chart[i].hip + size_chart[i + 1].hip

\* C10: of two candidates of exactly equal distance the smaller size comes
\* first; midway between two adjacent entries the two are tied and the
\* smaller one is the best match.
C10_TiesInTableOrder ==
    Returned =>
        /\ \A i, j \in 1..Len(scored) :
              (i < j /\ scored[i].dist = scored[j].dist) =>
                  scored[i].size < scored[j].size
        /\ \A i \in 1..(Len(size_chart) - 1) :
              Midway(i) =>
                  /\ scored[1].size = size_chart[i].size
                  /\ scored[2].size = size_chart[i + 1].size
                  /\ scored[1].dist = scored[2].dist

\* (82, 70, 88) under Ampulheta: sizes 34 and 36 tied, 34 first
C10_Witness ==
    /\ pc = "scored"
    /\ biotipo = "Ampulheta"
    /\ <<user_bust, user_waist, user_hip>> = <<82, 70, 88>>
    /\ scored[1].size = 34
    /\ scored[2].size = 36
    /\ scored[1].dist = scored[2].dist

C12_NoSideEffects ==
    /\ size_chart = SIZE_CHART
    /\ weights = BIOTIPO_WEIGHTS
    /\ bins = STATURE_BINS
    /\ pc = "scored" =>
          \E up \in Roundings(SIZE_CHART, user_bust, user_waist, user_hip,
                              WeightsFor(BIOTIPO_WEIGHTS, biotipo)) :
              scored = score_sizes(SIZE_CHART, BIOTIPO_WEIGHTS, user_bust,
                                   user_waist, user_hip, biotipo, up)
    /\ pc = "done" =>
          <<scored, best, top_candidates>> \in
              suggest_size_and_top(SIZE_CHART, BIOTIPO_WEIGHTS, user_bust,
                                   user_waist, user_hip, biotipo, top_n)
    /\ pc = "classified" =>
          estatura = classify_estatura(STATURE_BINS, altura_cm)

\* the third call of a caller has returned: (82, 70, 88) under Ampulheta,
\* sizes 34 and 36 first, in table order
C12_Witness ==
    /\ n_calls = 2
    /\ pc = "scored"
    /\ biotipo = "Ampulheta"
    /\ <<user_bust, user_waist, user_hip>> = <<82, 70, 88>>
    /\ scored[1].size = 34
    /\ scored[2].size = 36
    /\ size_chart = SIZE_CHART

\* C13: however the row steps of concurrent calls of score_sizes are
\* interleaved, a call returns the sequence it returns when run alone, and
\* the table and the weights are as loaded.
C13_ConcurrentCallsAreIsolated ==
    /\ size_chart = SIZE_CHART
    /\ weights = BIOTIPO_WEIGHTS
    /\ \A t \in DOMAIN calls :
          calls[t].pc = "returned" =>
              calls[t].scored =
                  score_sizes(SIZE_CHART, BIOTIPO_WEIGHTS, calls[t].b,
                              calls[t].w, calls[t].h, calls[t].label,
                              calls[t].up)

\* thread 1 has returned for (90, 74, 98) under Retangular, size 38 first,
\* while thread 2 is halfway through the table for other arguments
C13_Witness ==
    /\ {1, 2} \subseteq DOMAIN calls
    /\ calls[1].pc = "returned"
    /\ calls[1].b = 90 /\ calls[1].label = "Retangular"
    /\ calls[1].scored[1].size = 38
    /\ calls[2].pc = "loop"
    /\ calls[2].i = 7
    /\ calls[2].label = "Oval"
    /\ Len(calls[2].scored) = 7


\* C14 as stated: classify_estatura never returns from its last line, the
\* default for heights in a gap between two bins.
C14_GapFallbackDead == pc = "classified" => branch # "gap"

\* C14: classify_estatura returns baixa, media or alta for every height; it
\* returns from its last line, with media, exactly for the heights strictly
\* between two bins (157.5 and 165.5 among the half-centimetre steps), and
\* never for a height in whole centimetres.
C14_GapOnlyBetweenBins ==
    pc = "classified" =>
        /\ estatura \in {"baixa", "media", "alta"}
        /\ branch \in {"bin", "below", "above", "gap"}
        /\ branch = "gap" <=> altura_cm \in {315, 331}
        /\ branch = "gap" => estatura = "media"
        /\ altura_cm % 2 = 0 => branch # "gap"
        /\ branch = "below" <=> altura_cm < 300
        /\ branch = "above" <=> altura_cm > 362

\* classify_estatura(157.5) has returned media from its last line
C14_Witness ==
    /\ pc = "classified"
    /\ altura_cm = 315
    /\ branch = "gap"
    /\ estatura = "media"


\* the candidates of the returned sequence at distance zero
ZeroCandidates == {j \in 1..Len(scored) : scored[j].dist.sq = 0}

\* C15: every weight of every category is strictly positive; every
\* candidate's distance is non-negative and is zero only when the user's
\* bust, waist and hip all equal the candidate's reference values; at most
\* one candidate of a call has distance zero.
C15_ZeroDistanceOnlyOnExactMatch ==
    /\ \A k \in DOMAIN weights :
          weights[k].bust > 0 /\ weights[k].waist > 0 /\ weights[k].hip > 0
    /\ Returned =>
          /\ \A j \in 1..Len(scored) :
                /\ scored[j].dist.sq >= 0
                /\ scored[j].dist.ulp >= 0
                /\ scored[j].dist.sq = 0 =>
                      /\ user_bust = scored[j].bust
                      /\ user_waist = scored[j].waist
                      /\ user_hip = scored[j].hip
          /\ Cardinality(ZeroCandidates) <= 1

\* bust and waist are those of size 36 and the hip is 2 cm off under
\* Triangulo: no candidate is at distance zero
C15_Witness ==
    /\ pc = "scored"
    /\ biotipo = "Triangulo"
    /\ user_bust = size_chart[2].bust
    /\ user_waist = size_chart[2].waist
    /\ user_hip = size_chart[2].hip + 2
    /\ scored[1].size = 36
    /\ scored[1].dist.sq > 0
    /\ ZeroCandidates = {}


\* the sizes of the first n candidates of a sequence
PrefixSizes(seq, n) == {seq[j].size : j \in 1..n}

\* S is n consecutive sizes of the size table, none skipped
IsRun(S, n) ==
    \E lo \in 1..(Len(SIZES) - n + 1) : S = {SIZES[k] : k \in lo..(lo + n - 1)}

\* C16: for every N in 1..15 the first N candidates of the sorted sequence,
\* which are the top N of suggest_size_and_top, are N consecutive sizes of
\* the size table; the top 3 returned by default are three adjacent sizes
\* and hold the best size.
C16_TopCandidatesAreContiguous ==
    /\ Returned =>
          \A n \in 1..Len(scored) :
              /\ IsRun(PrefixSizes(scored, n), n)
              /\ scored[1].size \in PrefixSizes(scored, n)
    /\ pc = "done" =>
          /\ Len(top_candidates) = 3
          /\ IsRun(PrefixSizes(top_candidates, 3), 3)
          /\ best.size \in PrefixSizes(top_candidates, 3)

\* the top 3 for (90, 74, 98) under Retangular are 38, 40, 36 in this
\* order: the best size in the middle of the run 36..40
C16_Witness ==
    /\ pc = "done"
    /\ <<user_bust, user_waist, user_hip>> = <<90, 74, 98>>
    /\ biotipo = "Retangular"
    /\ best.size = 38
    /\ top_candidates[2].size = 40
    /\ top_candidates[3].size = 36


\* C17: in the page flow of the app (Começar, a page picked in the sidebar,
\* Calcular tamanho sugerido, Nova consulta) the stored result is None
\* whenever the current page is not Resultado.
C17_ResultResetAwayFromResultado ==
    session_state.page # "Resultado" => session_state.result_data = None

=============================================================================
